---- MODULE Spec2Model ----
(***************************************************************************)
(* A model of package soup (src/soup.go): the query layer over a parsed    *)
(* html.Node tree.  The tree is an arena of nodes addressed by 1..n with   *)
(* the Parent / FirstChild / NextSibling / PrevSibling links of html.Node; *)
(* a Root is the wrapper {Pointer, NodeValue, Error}.  Go strings are      *)
(* sequences of runes (code points), so that strings.Fields, fmt.Errorf    *)
(* and string concatenation are computed, not assumed.                     *)
(***************************************************************************)
EXTENDS Integers, Sequences, FiniteSets, TLC

VARIABLES doc, r, pc, call, res

vars == <<doc, r, pc, call, res>>

(***************************************************************************)
(* Bounds of the model.                                                    *)
(***************************************************************************)
MaxNodes == 4
MaxAttrs == 2

(***************************************************************************)
(* html.Node values.                                                       *)
(***************************************************************************)
NilNode == 0

ElementNode == "ElementNode"
TextNode == "TextNode"
CommentNode == "CommentNode"
DocumentNode == "DocumentNode"
DoctypeNode == "DoctypeNode"

Attribute(key, val) == [Key |-> key, Val |-> val]

\* Go strings used as labels, keys and values: "a", "b", "k", "j", "ab",
\* "a b", "a b c", "a\tb", "a\vb", "a" U+00A0 "b", " b ", "" and " ".
sA == <<97>>
sB == <<98>>
sK == <<107>>
sJ == <<106>>
sAB == <<97, 98>>
sA_B == <<97, 32, 98>>
sA_B_C == <<97, 32, 98, 32, 99>>
sATabB == <<97, 9, 98>>
sAVtB == <<97, 11, 98>>
sANbspB == <<97, 160, 98>>
s_B_ == <<32, 98, 32>>
sEmpty == <<>>
sSpace == <<32>>

Nodes == DOMAIN doc

(***************************************************************************)
(* Root wrappers and errors.  An error is the tuple of its one message;    *)
(* the nil error is the empty tuple.                                       *)
(***************************************************************************)
NilErr == <<>>

\* The places of the verb %s (37, 115) in format from place i on.
VerbsFrom(format, i) ==
    {p \in i..(Len(format) - 1) : format[p] = 37 /\ format[p + 1] = 115}

\* fmt.Sprintf for the verb %s: the text up to the next verb is copied and
\* the k-th verb is replaced by a[k].
RECURSIVE SprintfFrom(_, _, _, _)
SprintfFrom(format, a, i, k) ==
    LET verbs == VerbsFrom(format, i)
    IN  IF verbs = {}
        THEN SubSeq(format, i, Len(format))
        ELSE LET p == CHOOSE q \in verbs : \A o \in verbs : q <= o
             IN  SubSeq(format, i, p - 1) \o a[k] \o SprintfFrom(format, a, p + 2, k + 1)

Sprintf(format, a) == SprintfFrom(format, a, 1, 1)

\* strings.Join: the elements with sep between them.
RECURSIVE Join(_, _)
Join(elems, sep) ==
    IF Len(elems) = 0
    THEN <<>>
    ELSE IF Len(elems) = 1
         THEN elems[1]
         ELSE elems[1] \o sep \o Join(Tail(elems), sep)

wrapNode(n) == [Pointer |-> n, NodeValue |-> doc[n].Data, Error |-> NilErr]

\* wrapErr with the error dropped: the Root is the zero value.
wrapErrDropsError(err) == [Pointer |-> NilNode, NodeValue |-> <<>>, Error |-> NilErr]

wrapErr(err) == [Pointer |-> NilNode, NodeValue |-> <<>>, Error |-> err]

wrapErrf(format, a) == wrapErr(<<Sprintf(format, a)>>)

\* The format strings of the errors, rune by rune (96 is the grave accent).
\* not enough arguments
ErrNotEnoughArgs ==
    <<110, 111, 116, 32, 101, 110, 111, 117, 103, 104, 32, 97, 114, 103,
      117, 109, 101, 110, 116, 115>>
\* element (96)%s(96) with attributes (96)%s(96) not found
ErrNotFound ==
    <<101, 108, 101, 109, 101, 110, 116, 32, 96, 37, 115, 96, 32, 119, 105,
      116, 104, 32, 97, 116, 116, 114, 105, 98, 117, 116, 101, 115, 32, 96,
      37, 115, 96, 32, 110, 111, 116, 32, 102, 111, 117, 110, 100>>
\* no next sibling found
ErrNoNextSibling ==
    <<110, 111, 32, 110, 101, 120, 116, 32, 115, 105, 98, 108, 105, 110,
      103, 32, 102, 111, 117, 110, 100>>
\* no previous sibling found
ErrNoPrevSibling ==
    <<110, 111, 32, 112, 114, 101, 118, 105, 111, 117, 115, 32, 115, 105,
      98, 108, 105, 110, 103, 32, 102, 111, 117, 110, 100>>
\* no next element sibling found
ErrNoNextElementSibling ==
    <<110, 111, 32, 110, 101, 120, 116, 32, 101, 108, 101, 109, 101, 110,
      116, 32, 115, 105, 98, 108, 105, 110, 103, 32, 102, 111, 117, 110,
      100>>
\* no previous element sibling found
ErrNoPrevElementSibling ==
    <<110, 111, 32, 112, 114, 101, 118, 105, 111, 117, 115, 32, 101, 108,
      101, 109, 101, 110, 116, 32, 115, 105, 98, 108, 105, 110, 103, 32,
      102, 111, 117, 110, 100>>

(***************************************************************************)
(* Attribute matchers.                                                     *)
(***************************************************************************)
\* unicode.IsSpace: \t \n \v \f \r, space, U+0085, U+00A0 and the
\* characters of the Unicode property White_Space beyond Latin-1.
isSpace(c) ==
    c \in {9, 10, 11, 12, 13, 32, 133, 160, 5760, 8232, 8233, 8239, 8287, 12288}
           \cup (8192..8202)

RECURSIVE FieldsFrom(_, _, _, _)
FieldsFrom(s, i, cur, acc) ==
    IF i > Len(s)
    THEN IF cur = <<>> THEN acc ELSE Append(acc, cur)
    ELSE IF isSpace(s[i])
         THEN FieldsFrom(s, i + 1, <<>>, IF cur = <<>> THEN acc ELSE Append(acc, cur))
         ELSE FieldsFrom(s, i + 1, Append(cur, s[i]), acc)

\* strings.Fields: the maximal runs of non-space characters, in order.
Fields(s) == FieldsFrom(s, 1, <<>>, <<>>)

\* attributeAndValueEquals without the comparison of the keys.
attributeValueEquals(attr, key, val) == attr.Val = val

attributeAndValueEquals(attr, key, val) == attr.Key = key /\ attr.Val = val

\* attributeContainsValue with strings.Contains in place of the comparison
\* with each field.
attributeContainsSubstring(attr, key, val) ==
    IF attr.Key # key
    THEN FALSE
    ELSE \E i \in 1..(Len(attr.Val) + 1) : \E j \in (i - 1)..Len(attr.Val) :
             SubSeq(attr.Val, i, j) = val

attributeContainsValue(attr, key, val) ==
    IF attr.Key # key
    THEN FALSE
    ELSE LET fs == Fields(attr.Val)
         IN  \E f \in 1..Len(fs) : fs[f] = val

attrMatches(attr, args, strict) ==
    \/ strict /\ attributeAndValueEquals(attr, args[2], args[3])
    \/ ~strict /\ attributeContainsValue(attr, args[2], args[3])

(***************************************************************************)
(* findOnce: depth first search for the first occurrence.  The result is   *)
(* the pair (p, q) of the code, with panic set when the code indexes args  *)
(* out of range.                                                           *)
(***************************************************************************)
NotFoundPQ == [p |-> NilNode, q |-> FALSE, panic |-> FALSE]
PanicPQ == [p |-> NilNode, q |-> FALSE, panic |-> TRUE]

\* The loop over n.Attr: "found", "panic" or "next" (loop ran out).
RECURSIVE findOnceAttrs(_, _, _, _)
findOnceAttrs(n, args, strict, i) ==
    IF i > Len(doc[n].Attr)
    THEN "next"
    ELSE IF Len(args) < 3
         THEN "panic"
         ELSE IF attrMatches(doc[n].Attr[i], args, strict)
              THEN "found"
              ELSE findOnceAttrs(n, args, strict, i + 1)

\* findOnceSelf without the test of uni: the start node is matched too.
findOnceSelfAlways(n, args, uni, strict) ==
    IF doc[n].Type # ElementNode
    THEN "next"
    ELSE IF Len(args) = 0
         THEN "panic"
         ELSE IF doc[n].Data # args[1]
              THEN "next"
              ELSE IF Len(args) > 1 /\ Len(args) < 4
                   THEN findOnceAttrs(n, args, strict, 1)
                   ELSE IF Len(args) = 1 THEN "found" ELSE "next"

\* The test of n itself, made when uni is set.
findOnceSelf(n, args, uni, strict) ==
    IF ~uni \/ doc[n].Type # ElementNode
    THEN "next"
    ELSE IF Len(args) = 0
         THEN "panic"
         ELSE IF doc[n].Data # args[1]
              THEN "next"
              ELSE IF Len(args) > 1 /\ Len(args) < 4
                   THEN findOnceAttrs(n, args, strict, 1)
                   ELSE IF Len(args) = 1 THEN "found" ELSE "next"

RECURSIVE findOnce(_, _, _, _)
RECURSIVE findOnceChildren(_, _, _)
findOnce(n, args, uni, strict) ==
    LET self == findOnceSelf(n, args, uni, strict)
    IN  IF self = "found"
        THEN [p |-> n, q |-> TRUE, panic |-> FALSE]
        ELSE IF self = "panic"
             THEN PanicPQ
             ELSE findOnceChildren(doc[n].FirstChild, args, strict)

\* for c := n.FirstChild; c != nil; c = c.NextSibling
findOnceChildren(c, args, strict) ==
    IF c = NilNode
    THEN NotFoundPQ
    ELSE LET pq == findOnce(c, args, TRUE, strict)
         IN  IF pq.panic \/ pq.q
             THEN pq
             ELSE findOnceChildren(doc[c].NextSibling, args, strict)

(***************************************************************************)
(* findAllofem: depth first search collecting nodeLinks.                   *)
(***************************************************************************)
PanicLinks == [links |-> <<>>, panic |-> TRUE]

\* The loop over n.Attr: one append for every attribute that matches.
RECURSIVE findAllAttrs(_, _, _, _, _)
findAllAttrs(n, args, strict, i, acc) ==
    IF i > Len(doc[n].Attr)
    THEN [links |-> acc, panic |-> FALSE]
    ELSE IF Len(args) < 3
         THEN PanicLinks
         ELSE findAllAttrs(n, args, strict, i + 1,
                           IF attrMatches(doc[n].Attr[i], args, strict)
                           THEN Append(acc, n)
                           ELSE acc)

\* The test of n itself, made when uni is set.
findAllSelf(n, args, uni, strict, acc) ==
    IF ~uni
    THEN [links |-> acc, panic |-> FALSE]
    ELSE IF Len(args) = 0
         THEN PanicLinks
         ELSE IF doc[n].Data # args[1]
              THEN [links |-> acc, panic |-> FALSE]
              ELSE IF Len(args) > 1 /\ Len(args) < 4
                   THEN findAllAttrs(n, args, strict, 1, acc)
                   ELSE IF Len(args) = 1
                        THEN [links |-> Append(acc, n), panic |-> FALSE]
                        ELSE [links |-> acc, panic |-> FALSE]

RECURSIVE findAllF(_, _, _, _, _)
RECURSIVE findAllChildren(_, _, _, _)
\* The closure f of findAllofem; acc is nodeLinks.
findAllF(n, args, uni, strict, acc) ==
    LET self == findAllSelf(n, args, uni, strict, acc)
    IN  IF self.panic
        THEN self
        ELSE findAllChildren(doc[n].FirstChild, args, strict, self.links)

\* findAllChildren that visits the first child only.
findAllFirstChild(c, args, strict, acc) ==
    IF c = NilNode
    THEN [links |-> acc, panic |-> FALSE]
    ELSE findAllF(c, args, TRUE, strict, acc)

findAllChildren(c, args, strict, acc) ==
    IF c = NilNode
    THEN [links |-> acc, panic |-> FALSE]
    ELSE LET sub == findAllF(c, args, TRUE, strict, acc)
         IN  IF sub.panic
             THEN sub
             ELSE findAllChildren(doc[c].NextSibling, args, strict, sub.links)

findAllofem(n, args, strict) == findAllF(n, args, FALSE, strict, <<>>)

(***************************************************************************)
(* Results of the methods of Root: a Root, a slice of Roots, a string, a   *)
(* map, or a run-time panic.                                               *)
(***************************************************************************)
RootRes(w) == [kind |-> "Root", val |-> w]
RootsRes(ws) == [kind |-> "Roots", val |-> ws]
StringRes(s) == [kind |-> "string", val |-> s]
MapRes(m) == [kind |-> "map", val |-> m]
PanicRes == [kind |-> "panic", val |-> "index out of range"]
\* The panic of a nil pointer dereference, and a call that never returns.
NilDerefRes == [kind |-> "panic", val |-> "nil pointer dereference"]
NoReturnRes == [kind |-> "no return", val |-> <<>>]
NoRes == [kind |-> "none", val |-> <<>>]

\* ps[i] = wrapNode(t) for every t of temp in turn.
RECURSIVE wrapNodesFrom(_, _, _)
wrapNodesFrom(ns, i, ps) ==
    IF i > Len(ns) THEN ps ELSE wrapNodesFrom(ns, i + 1, Append(ps, wrapNode(ns[i])))

wrapNodes(ns) == wrapNodesFrom(ns, 1, <<>>)

FindWith(rt, args, strict) ==
    IF Len(args) = 0
    THEN RootRes(wrapErrf(ErrNotEnoughArgs, <<>>))
    ELSE LET temp == findOnce(rt.Pointer, args, FALSE, strict)
         IN  IF temp.panic
             THEN PanicRes
             ELSE IF ~temp.q
                  THEN RootRes(wrapErrf(ErrNotFound, <<args[1], Join(Tail(args), sSpace)>>))
                  ELSE RootRes(wrapNode(temp.p))

FindAllWith(rt, args, strict) ==
    LET temp == findAllofem(rt.Pointer, args, strict)
    IN  IF temp.panic
        THEN PanicRes
        ELSE IF Len(temp.links) = 0
             THEN RootsRes(<<>>)
             ELSE RootsRes(wrapNodes(temp.links))

Find(rt, args) == FindWith(rt, args, FALSE)
FindStrict(rt, args) == FindWith(rt, args, TRUE)
FindAll(rt, args) == FindAllWith(rt, args, FALSE)
FindAllStrict(rt, args) == FindAllWith(rt, args, TRUE)

FindNextSibling(rt) ==
    LET next == doc[rt.Pointer].NextSibling
    IN  IF next = NilNode
        THEN RootRes(wrapErrf(ErrNoNextSibling, <<>>))
        ELSE RootRes(wrapNode(next))

FindPrevSibling(rt) ==
    LET prev == doc[rt.Pointer].PrevSibling
    IN  IF prev = NilNode
        THEN RootRes(wrapErrf(ErrNoPrevSibling, <<>>))
        ELSE RootRes(wrapNode(prev))

\* for k := ...NextSibling; k != nil; k = k.NextSibling
RECURSIVE nextElementFrom(_)
nextElementFrom(k) ==
    IF k = NilNode
    THEN RootRes(wrapErrf(ErrNoNextElementSibling, <<>>))
    ELSE IF doc[k].Type = ElementNode
         THEN RootRes(wrapNode(k))
         ELSE nextElementFrom(doc[k].NextSibling)

FindNextElementSibling(rt) == nextElementFrom(doc[rt.Pointer].NextSibling)

\* prevElementFrom without the test of the type: the previous sibling.
prevSiblingFrom(k) ==
    IF k = NilNode
    THEN RootRes(wrapErrf(ErrNoPrevElementSibling, <<>>))
    ELSE RootRes(wrapNode(k))

\* for k := ...PrevSibling; k != nil; k = k.PrevSibling
RECURSIVE prevElementFrom(_)
prevElementFrom(k) ==
    IF k = NilNode
    THEN RootRes(wrapErrf(ErrNoPrevElementSibling, <<>>))
    ELSE IF doc[k].Type = ElementNode
         THEN RootRes(wrapNode(k))
         ELSE prevElementFrom(doc[k].PrevSibling)

FindPrevElementSibling(rt) == prevElementFrom(doc[rt.Pointer].PrevSibling)

RECURSIVE childrenFrom(_, _)
childrenFrom(k, cs) ==
    IF k = NilNode
    THEN cs
    ELSE childrenFrom(doc[k].NextSibling,
                      Append(cs, [Pointer |-> k, NodeValue |-> doc[k].Data, Error |-> NilErr]))

Children(rt) == RootsRes(childrenFrom(doc[rt.Pointer].FirstChild, <<>>))

\* kv[attr.Key] = attr.Val for every attribute in turn: the last one wins.
RECURSIVE getKeyValueFrom(_, _, _)
getKeyValueFrom(attrs, i, kv) ==
    IF i > Len(attrs)
    THEN kv
    ELSE getKeyValueFrom(attrs, i + 1,
                         [k \in (DOMAIN kv) \cup {attrs[i].Key} |->
                             IF k = attrs[i].Key THEN attrs[i].Val ELSE kv[k]])

getKeyValue(attrs) == getKeyValueFrom(attrs, 1, <<>>)

Attrs(rt) ==
    IF doc[rt.Pointer].Type # ElementNode
    THEN MapRes(<<>>)
    ELSE MapRes(getKeyValue(doc[rt.Pointer].Attr))

\* textFrom without the test of the type: the data of every child.
RECURSIVE textFromAll(_, _)
textFromAll(k, s) ==
    IF k = NilNode THEN s ELSE textFromAll(doc[k].NextSibling, s \o doc[k].Data)

RECURSIVE textFrom(_, _)
textFrom(k, s) ==
    IF k = NilNode
    THEN s
    ELSE textFrom(doc[k].NextSibling,
                  IF doc[k].Type = TextNode THEN s \o doc[k].Data ELSE s)

Text(rt) ==
    IF doc[rt.Pointer].Type = TextNode
    THEN StringRes(doc[rt.Pointer].Data)
    ELSE StringRes(textFrom(doc[rt.Pointer].FirstChild, <<>>))

RECURSIVE fullText(_, _)
RECURSIVE fullTextChildren(_, _)
\* s is the strings.Builder: the text written so far.
fullText(s, n) ==
    IF doc[n].Type = TextNode
    THEN s \o doc[n].Data
    ELSE fullTextChildren(s, doc[n].FirstChild)

fullTextChildren(s, k) ==
    IF k = NilNode
    THEN s
    ELSE fullTextChildren(fullText(s, k), doc[k].NextSibling)

FullText(rt) == StringRes(fullText(<<>>, rt.Pointer))

(***************************************************************************)
(* The documents.  html.Parse builds the tree; here a tree of n nodes is   *)
(* given by the depth of each node in document order and by the kind       *)
(* (Type, Data, Attr) of each node.  Node 1 is the DocumentNode; its       *)
(* children are one element, at most one doctype before it, and comments;  *)
(* below the element only elements have children.                         *)
(***************************************************************************)
Shapes(n) ==
    {d \in [1..n -> 0..(n - 1)] :
        /\ d[1] = 0
        /\ \A i \in 2..n : d[i] >= 1 /\ d[i] <= d[i - 1] + 1}

Max(S) == CHOOSE x \in S : \A y \in S : y <= x
Min(S) == CHOOSE x \in S : \A y \in S : x <= y

ParentOf(d, i) ==
    LET up == {j \in 1..(i - 1) : d[j] = d[i] - 1}
    IN  IF up = {} THEN NilNode ELSE Max(up)

NextSiblingOf(d, i) ==
    LET sibs == {j \in (i + 1)..Len(d) : ParentOf(d, j) = ParentOf(d, i) /\ i > 1}
    IN  IF sibs = {} THEN NilNode ELSE Min(sibs)

PrevSiblingOf(d, i) ==
    LET sibs == {j \in 2..(i - 1) : ParentOf(d, j) = ParentOf(d, i)}
    IN  IF sibs = {} THEN NilNode ELSE Max(sibs)

FirstChildOf(d, i) ==
    IF i < Len(d) /\ d[i + 1] = d[i] + 1 THEN i + 1 ELSE NilNode

MkDoc(d, kd) ==
    [i \in 1..Len(d) |->
        [Type |-> kd[i].Type, Data |-> kd[i].Data, Attr |-> kd[i].Attr,
         Parent |-> ParentOf(d, i), FirstChild |-> FirstChildOf(d, i),
         PrevSibling |-> PrevSiblingOf(d, i), NextSibling |-> NextSiblingOf(d, i)]]

Kind(type, data, attr) == [Type |-> type, Data |-> data, Attr |-> attr]

\* The attribute lists of at most MaxAttrs attributes drawn from pool.
AttrLists(pool) == UNION {[1..m -> pool] : m \in 0..MaxAttrs}

DocumentKind == Kind(DocumentNode, <<>>, <<>>)

\* The kinds of the children of the document: a doctype a, a comment a, and
\* the elements among kinds.
TopKinds(kinds) ==
    {Kind(DoctypeNode, sA, <<>>), Kind(CommentNode, sA, <<>>)}
        \cup {k \in kinds : k.Type = ElementNode}

\* The kinds a node at depth dep may have.
KindsAt(dep, kinds) ==
    IF dep = 0 THEN {DocumentKind} ELSE IF dep = 1 THEN TopKinds(kinds) ELSE kinds

\* The assignments of a kind to every node from node i on.
RECURSIVE KindSeqs(_, _, _)
KindSeqs(d, i, kinds) ==
    IF i > Len(d)
    THEN {<<>>}
    ELSE {<<k>> \o rest : k \in KindsAt(d[i], kinds), rest \in KindSeqs(d, i + 1, kinds)}

\* The shape d with the kinds kd is a document as html.Parse builds them.
IsDoc(d, kd) ==
    LET top == {i \in 1..Len(d) : d[i] = 1}
        html == {i \in top : kd[i].Type = ElementNode}
    IN  /\ Cardinality(html) = 1
        /\ Cardinality({i \in top : kd[i].Type = DoctypeNode}) <= 1
        /\ \A i \in top : \A j \in html : kd[i].Type = DoctypeNode => i < j
        /\ \A i \in 2..Len(d) : d[i] > 1 => kd[ParentOf(d, i)].Type = ElementNode

\* unable to parse the HTML
ErrUnableToParse ==
    <<117, 110, 97, 98, 108, 101, 32, 116, 111, 32, 112, 97, 114, 115, 101,
      32, 116, 104, 101, 32, 72, 84, 77, 76>>

\* The loop of HTMLParse from node n of t (n = NilNode: r is nil).  The test
\* r.Type of a nil r is a nil pointer dereference; at a node that is no
\* element and for which the switch has no case r stays as it is, and the
\* loop never ends.
RECURSIVE htmlParseFrom(_, _)
htmlParseFrom(t, n) ==
    IF n = NilNode
    THEN NilDerefRes
    ELSE IF t[n].Type = ElementNode
         THEN RootRes([Pointer |-> n, NodeValue |-> t[n].Data, Error |-> NilErr])
         ELSE IF t[n].Type = DocumentNode
              THEN htmlParseFrom(t, t[n].FirstChild)
              ELSE IF t[n].Type \in {DoctypeNode, CommentNode}
                   THEN htmlParseFrom(t, t[n].NextSibling)
                   ELSE NoReturnRes

\* HTMLParse, given what html.Parse returned: the tree t (its node 1 is the
\* DocumentNode; the empty tree is the nil node) and the error err.
HTMLParse(t, err) ==
    IF err # NilErr
    THEN RootRes(wrapErrf(ErrUnableToParse, <<>>))
    ELSE htmlParseFrom(t, IF Len(t) = 0 THEN NilNode ELSE 1)

\* The kinds of node below the document in the documents of Spec: elements
\* a and b, an element a with an attribute, text a and b, a comment a.
TreeKinds ==
    {Kind(ElementNode, sA, <<>>), Kind(ElementNode, sA, <<Attribute(sK, sB)>>),
     Kind(ElementNode, sB, <<>>), Kind(TextNode, sA, <<>>),
     Kind(TextNode, sB, <<>>), Kind(CommentNode, sA, <<>>)}

\* The attributes of the documents of SpecAttr.
AttrVals == {sB, sAB, sA_B, sA_B_C, s_B_, sATabB, sAVtB, sANbspB, sEmpty}
AttrPool == {Attribute(k, v) : k \in {sK, sJ}, v \in AttrVals}

\* A document whose element a holds one element, a or b, with a list of
\* attributes.
AttrDocs ==
    {MkDoc(<<0, 1, 2>>, <<DocumentKind, Kind(ElementNode, sA, <<>>),
                          Kind(ElementNode, l, al)>>) :
        l \in {sA, sB}, al \in AttrLists(AttrPool)}

\* What html.Parse may return with an error: no tree.  The parser is not
\* part of this package; the error stands for any it reports.
NoTree == <<>>
\* unexpected EOF
ParseErr == <<<<117, 110, 101, 120, 112, 101, 99, 116, 101, 100, 32, 69, 79, 70>>>>

\* The state when HTMLParse(t, err) is over: the caller holds the Root it
\* returned and goes on when that Root carries no error; a panic or a call
\* without return leaves the caller with no Root.
InitWith(t, err) ==
    LET result == HTMLParse(t, err)
        ok == result.kind = "Root" /\ result.val.Error = NilErr
    IN  /\ doc = t
        /\ r = IF result.kind = "Root" THEN result.val ELSE wrapErr(NilErr)
        /\ pc = IF ok THEN "ready" ELSE "stopped"
        /\ call = [op |-> "HTMLParse", args |-> <<>>]
        /\ res = IF ok THEN NoRes ELSE result

ParseFailed == InitWith(NoTree, ParseErr)

\* The documents of Spec hold at most MaxNodes nodes below the DocumentNode.
Init ==
    \/ ParseFailed
    \/ \E n \in 2..(MaxNodes + 1) : \E d \in Shapes(n) :
           \E kd \in KindSeqs(d, 1, TreeKinds) :
               IsDoc(d, kd) /\ InitWith(MkDoc(d, kd), NilErr)

InitAttr == ParseFailed \/ \E t \in AttrDocs : InitWith(t, NilErr)

(***************************************************************************)
(* The calls.  A call is made on the Root r held by the caller; Continue   *)
(* is the caller going on with a Root it was handed back.                  *)
(***************************************************************************)
ArgLists(tags, keys, vals) ==
    {<<>>} \cup {<<t>> : t \in tags} \cup {<<t, k>> : t \in tags, k \in keys}
           \cup {<<t, k, v>> : t \in tags, k \in keys, v \in vals}

Args == ArgLists({sA}, {sK}, {sB, sA_B})

Return(op, args, result) ==
    /\ pc = "ready"
    /\ pc' = "returned"
    /\ call' = [op |-> op, args |-> args]
    /\ res' = result
    /\ UNCHANGED <<doc, r>>

DoFind == \E args \in Args : Return("Find", args, Find(r, args))
DoFindStrict == \E args \in Args : Return("FindStrict", args, FindStrict(r, args))
DoFindAll == \E args \in Args : Return("FindAll", args, FindAll(r, args))
DoFindAllStrict == \E args \in Args : Return("FindAllStrict", args, FindAllStrict(r, args))
DoFindNextSibling == Return("FindNextSibling", <<>>, FindNextSibling(r))
DoFindPrevSibling == Return("FindPrevSibling", <<>>, FindPrevSibling(r))
DoFindNextElementSibling == Return("FindNextElementSibling", <<>>, FindNextElementSibling(r))
DoFindPrevElementSibling == Return("FindPrevElementSibling", <<>>, FindPrevElementSibling(r))
DoChildren == Return("Children", <<>>, Children(r))
DoAttrs == Return("Attrs", <<>>, Attrs(r))
DoText == Return("Text", <<>>, Text(r))
DoFullText == Return("FullText", <<>>, FullText(r))

\* The Roots of a result that carry no error.
Usable(result) ==
    IF result.kind = "Root"
    THEN IF result.val.Error = NilErr THEN {result.val} ELSE {}
    ELSE IF result.kind = "Roots"
         THEN {result.val[i] : i \in 1..Len(result.val)}
         ELSE {}

Continue ==
    /\ pc = "returned"
    /\ \E w \in Usable(res) \cup {r} : r' = w
    /\ pc' = "ready"
    /\ res' = NoRes
    /\ call' = [op |-> "Continue", args |-> <<>>]
    /\ UNCHANGED doc

Next ==
    \/ DoFind
    \/ DoFindStrict
    \/ DoFindAll
    \/ DoFindAllStrict
    \/ DoFindNextSibling
    \/ DoFindPrevSibling
    \/ DoFindNextElementSibling
    \/ DoFindPrevElementSibling
    \/ DoChildren
    \/ DoAttrs
    \/ DoText
    \/ DoFullText
    \/ Continue

Spec == Init /\ [][Next]_vars

SpecAttr == InitAttr /\ [][Next]_vars

(***************************************************************************)
(* What the claims speak of, stated on the tree and not by the search:     *)
(* the proper descendants of a node, document order (MkDoc numbers the     *)
(* nodes in document order), and when an element satisfies a filter.       *)
(***************************************************************************)
RECURSIVE IsAncestor(_, _)
IsAncestor(a, m) ==
    /\ doc[m].Parent # NilNode
    /\ (doc[m].Parent = a \/ IsAncestor(a, doc[m].Parent))

Descendants(n) == {m \in Nodes : IsAncestor(n, m)}

\* The whitespace separated tokens of s: the maximal runs without a space.
Tokens(s) ==
    {SubSeq(s, i, j) : <<i, j>> \in
        {x \in (1..Len(s)) \X (1..Len(s)) :
            /\ x[1] <= x[2]
            /\ \A k \in x[1]..x[2] : ~isSpace(s[k])
            /\ (x[1] = 1 \/ isSpace(s[x[1] - 1]))
            /\ (x[2] = Len(s) \/ isSpace(s[x[2] + 1]))}}

LooseSat(m, key, val) ==
    \E i \in 1..Len(doc[m].Attr) :
        doc[m].Attr[i].Key = key /\ val \in Tokens(doc[m].Attr[i].Val)

StrictSat(m, key, val) ==
    \E i \in 1..Len(doc[m].Attr) :
        doc[m].Attr[i].Key = key /\ doc[m].Attr[i].Val = val

\* The elements below n that a search for args is to find.
Matching(n, args, strict) ==
    {m \in Descendants(n) :
        /\ doc[m].Type = ElementNode
        /\ doc[m].Data = args[1]
        /\ \/ Len(args) = 1
           \/ Len(args) = 3 /\ strict /\ StrictSat(m, args[2], args[3])
           \/ Len(args) = 3 /\ ~strict /\ LooseSat(m, args[2], args[3])}

ChildrenOf(n) == {m \in Nodes : doc[m].Parent = n}

\* The documents are trees as html.Parse builds them: the links agree with
\* one another, only elements have children or attributes, and the nodes
\* are numbered in document order (a node before its descendants, these
\* before its next sibling).
DocWellFormed ==
    \A m \in Nodes :
        /\ doc[m].Parent = NilNode <=> m = 1
        /\ m # 1 => doc[m].Parent \in Nodes /\ doc[m].Parent < m
        /\ doc[m].Type = DocumentNode <=> m = 1
        /\ doc[m].Type \notin {ElementNode, DocumentNode} => ChildrenOf(m) = {}
        /\ doc[m].Type # ElementNode => doc[m].Attr = <<>>
        /\ doc[m].Type \in {TextNode, DoctypeNode} =>
               (doc[m].Type = DoctypeNode <=> doc[m].Parent = 1)
        /\ doc[m].FirstChild =
               IF ChildrenOf(m) = {} THEN NilNode ELSE Min(ChildrenOf(m))
        /\ LET after == {x \in ChildrenOf(doc[m].Parent) : x > m}
               before == {x \in ChildrenOf(doc[m].Parent) : x < m}
           IN  /\ doc[m].NextSibling =
                      IF m = 1 \/ after = {} THEN NilNode ELSE Min(after)
               /\ doc[m].PrevSibling =
                      IF m = 1 \/ before = {} THEN NilNode ELSE Max(before)
               /\ \A x \in after : \A z \in Descendants(m) : z < x
        /\ r.Pointer \in Nodes \ {1} /\ r.Error = NilErr
        /\ r.NodeValue = doc[r.Pointer].Data

Returned(ops) == pc = "returned" /\ call.op \in ops

IsStrictCall == call.op \in {"FindStrict", "FindAllStrict"}

IsNode(w, m) == w.Pointer = m /\ w.Error = NilErr /\ w.NodeValue = doc[m].Data

IsError(w, msg) == w.Pointer = NilNode /\ w.NodeValue = <<>> /\ w.Error = <<msg>>

\* The message of the not-found error for args: "element (96)", the tag,
\* "(96) with attributes (96)", the other arguments with a space between
\* them, "(96) not found", where (96) is the grave accent.
NotFoundMessage(args) ==
    <<101, 108, 101, 109, 101, 110, 116, 32, 96>>
        \o args[1]
        \o <<96, 32, 119, 105, 116, 104, 32, 97, 116, 116, 114, 105, 98, 117, 116, 101, 115, 32, 96>>
        \o (IF Len(args) = 3 THEN args[2] \o <<32>> \o args[3] ELSE <<>>)
        \o <<96, 32, 110, 111, 116, 32, 102, 111, 117, 110, 100>>

Pointers(ws) == [i \in 1..Len(ws) |-> ws[i].Pointer]

\* C1: Find and FindStrict with one or three arguments return the first
\* matching element, in document order, among the proper descendants of the
\* start node, never the start node itself, and a not-found error exactly
\* when no proper descendant matches.
C1_FindFirstInPreOrder ==
    (Returned({"Find", "FindStrict"}) /\ Len(call.args) \in {1, 3}) =>
        LET M == Matching(r.Pointer, call.args, IsStrictCall)
        IN  /\ res.kind = "Root"
            /\ M = {} => IsError(res.val, NotFoundMessage(call.args))
            /\ M # {} => IsNode(res.val, Min(M)) /\ res.val.Pointer # r.Pointer

\* C1 witness: a Find with a filter starts at a node that matches itself
\* and returns a grandchild although a later child matches too.
C1_Witness ==
    /\ Returned({"Find"}) /\ Len(call.args) = 3
    /\ res.kind = "Root" /\ res.val.Error = NilErr
    /\ doc[r.Pointer].Type = ElementNode /\ doc[r.Pointer].Data = call.args[1]
    /\ LooseSat(r.Pointer, call.args[2], call.args[3])
    /\ doc[res.val.Pointer].Parent # r.Pointer
    /\ \E m \in Matching(r.Pointer, call.args, FALSE) :
          m # res.val.Pointer /\ doc[m].Parent = r.Pointer

\* The elements below n labelled tag.
ElementsLabelled(n, tag) ==
    {m \in Descendants(n) : doc[m].Type = ElementNode /\ doc[m].Data = tag}

\* The subsequence of the node ids ps that are elements.
RECURSIVE ElementsOf(_)
ElementsOf(ps) ==
    IF ps = <<>>
    THEN <<>>
    ELSE IF doc[Head(ps)].Type = ElementNode
         THEN <<Head(ps)>> \o ElementsOf(Tail(ps))
         ELSE ElementsOf(Tail(ps))

\* The nodes of S in document order.
RECURSIVE InOrder(_)
InOrder(S) == IF S = {} THEN <<>> ELSE <<Min(S)>> \o InOrder(S \ {Min(S)})

\* C2: when an element labelled tag exists below the start node, Find(tag)
\* returns an element labelled tag, and FindAll(tag) returns a sequence of
\* length >= 1, in document order, that contains the node Find returns and
\* every element labelled tag.
C2_ExistingTag ==
    (pc = "returned" /\ Len(call.args) = 1
        /\ ElementsLabelled(r.Pointer, call.args[1]) # {}) =>
        LET E == ElementsLabelled(r.Pointer, call.args[1])
        IN  /\ call.op = "Find" =>
                /\ res.kind = "Root" /\ res.val.Error = NilErr
                /\ res.val.Pointer \in E
                /\ res.val.NodeValue = call.args[1]
            /\ call.op = "FindAll" =>
                /\ res.kind = "Roots" /\ Len(res.val) >= 1
                /\ \A i \in 1..Len(res.val) : res.val[i].Error = NilErr
                /\ ElementsOf(Pointers(res.val)) = InOrder(E)
                /\ \A i, j \in 1..Len(res.val) :
                       i < j => res.val[i].Pointer < res.val[j].Pointer
                /\ \E i \in 1..Len(res.val) : res.val[i] = Find(r, call.args).val

\* C2 witness: FindAll(tag) returns two elements, the second one nested
\* deeper than a third node between them.
C2_Witness ==
    /\ Returned({"FindAll"}) /\ Len(call.args) = 1
    /\ res.kind = "Roots" /\ Len(res.val) >= 2
    /\ Cardinality(ElementsLabelled(r.Pointer, call.args[1])) >= 2
    /\ \E m \in ElementsLabelled(r.Pointer, call.args[1]) : doc[m].Parent # r.Pointer

\* C3: when no element below the start node is labelled tag, whatever text
\* or comment nodes carry that label, Find(tag) fails with the not-found
\* error and FindAll(tag) returns the empty sequence.
C3_AbsentTag ==
    (pc = "returned" /\ Len(call.args) = 1
        /\ ElementsLabelled(r.Pointer, call.args[1]) = {}) =>
        /\ call.op = "Find" =>
              res.kind = "Root" /\ IsError(res.val, NotFoundMessage(call.args))
        /\ call.op = "FindAll" => res = RootsRes(<<>>)

\* C4: Find and FindStrict with no argument or with exactly two arguments
\* return the not-enough-arguments error as a value, without aborting.
C4_ArityError ==
    (Returned({"Find", "FindStrict"}) /\ Len(call.args) \in {0, 2}) =>
        res.kind = "Root" /\ IsError(res.val, ErrNotEnoughArgs)

\* C9: a Root returned by Find, FindStrict or a sibling call carries either
\* a handle into the tree and no error or an error and no handle; every
\* Root of a sequence returned by FindAll, FindAllStrict or Children carries
\* a handle and no error.
C9_HandleXorError ==
    /\ (pc = "returned" /\ res.kind = "Root") =>
           \/ res.val.Pointer \in Nodes /\ res.val.Error = NilErr
           \/ res.val.Pointer = NilNode /\ res.val.Error # NilErr
    /\ (pc = "returned" /\ res.kind = "Roots") =>
           \A i \in 1..Len(res.val) :
               res.val[i].Pointer \in Nodes /\ res.val[i].Error = NilErr

\* C9 witness: a sibling call that found nothing returned an error Root.
C9_Witness ==
    /\ Returned({"FindNextElementSibling", "FindPrevSibling"})
    /\ res.kind = "Root" /\ res.val.Error # NilErr
    /\ doc[r.Pointer].Parent # 1

\* C5: with three arguments, Find and FindAll match an element labelled tag
\* exactly when one of its attributes has the key and a whitespace separated
\* token of its value equals the value sought: FindAll returns exactly those
\* elements, Find returns one of them and fails exactly when there is none.
C5_LooseMatch ==
    (Returned({"Find", "FindAll"}) /\ Len(call.args) = 3) =>
        LET M == {m \in ElementsLabelled(r.Pointer, call.args[1]) :
                     LooseSat(m, call.args[2], call.args[3])}
        IN  /\ call.op = "FindAll" =>
                /\ res.kind = "Roots"
                /\ {res.val[i].Pointer : i \in 1..Len(res.val)} = M
            /\ call.op = "Find" =>
                /\ res.kind = "Root"
                /\ M = {} <=> res.val.Error # NilErr
                /\ M # {} => res.val.Pointer \in M

\* C5 witness: k="ab" then k="a b c" is found by FindAll(a, k, b), through
\* the second attribute alone.
C5_Witness ==
    /\ Returned({"FindAll"}) /\ call.args = <<sA, sK, sB>>
    /\ r.Pointer = 2 /\ Len(doc) = 3
    /\ doc[3].Attr = <<Attribute(sK, sAB), Attribute(sK, sA_B_C)>>
    /\ res.kind = "Roots" /\ Len(res.val) = 1 /\ res.val[1].Pointer = 3

\* C6: with three arguments, FindStrict and FindAllStrict match an element
\* labelled tag exactly when one of its attributes has the key and its whole
\* value equals the value sought.
C6_StrictMatch ==
    (Returned({"FindStrict", "FindAllStrict"}) /\ Len(call.args) = 3) =>
        LET M == {m \in ElementsLabelled(r.Pointer, call.args[1]) :
                     StrictSat(m, call.args[2], call.args[3])}
        IN  /\ call.op = "FindAllStrict" =>
                /\ res.kind = "Roots"
                /\ {res.val[i].Pointer : i \in 1..Len(res.val)} = M
            /\ call.op = "FindStrict" =>
                /\ res.kind = "Root"
                /\ M = {} <=> res.val.Error # NilErr
                /\ M # {} => res.val.Pointer \in M

\* C6 witness: k="a b" is found by FindStrict(a, k, "a b"), and FindStrict
\* (a, k, b) on the same element finds nothing.
C6_Witness ==
    /\ Returned({"FindStrict"}) /\ call.args = <<sA, sK, sA_B>>
    /\ r.Pointer = 2 /\ Len(doc) = 3
    /\ doc[3].Attr = <<Attribute(sK, sA_B)>>
    /\ res.kind = "Root" /\ res.val.Pointer = 3
    /\ FindStrict(r, <<sA, sK, sB>>).val.Error # NilErr

\* The element siblings of n after it, and before it.
ElementSiblingsAfter(n) ==
    {m \in Nodes : /\ doc[n].Parent # NilNode /\ doc[m].Parent = doc[n].Parent
                   /\ m > n /\ doc[m].Type = ElementNode}

ElementSiblingsBefore(n) ==
    {m \in Nodes : /\ doc[n].Parent # NilNode /\ doc[m].Parent = doc[n].Parent
                   /\ m < n /\ doc[m].Type = ElementNode}

\* C7: FindNextElementSibling returns the nearest element sibling after the
\* node and FindPrevElementSibling the nearest one before it, whatever
\* non-element siblings lie between; from an element A the next element
\* sibling B has A as its previous element sibling, and conversely; the
\* navigation error is returned exactly when no such sibling exists.
C7_ElementSiblingRoundTrip ==
    /\ Returned({"FindNextElementSibling"}) =>
           LET S == ElementSiblingsAfter(r.Pointer)
           IN  /\ res.kind = "Root"
               /\ S = {} <=> res.val.Error # NilErr
               /\ S = {} => IsError(res.val, ErrNoNextElementSibling)
               /\ S # {} => IsNode(res.val, Min(S))
               /\ (S # {} /\ doc[r.Pointer].Type = ElementNode) =>
                      FindPrevElementSibling(res.val) = RootRes(r)
    /\ Returned({"FindPrevElementSibling"}) =>
           LET S == ElementSiblingsBefore(r.Pointer)
           IN  /\ res.kind = "Root"
               /\ S = {} <=> res.val.Error # NilErr
               /\ S = {} => IsError(res.val, ErrNoPrevElementSibling)
               /\ S # {} => IsNode(res.val, Max(S))
               /\ (S # {} /\ doc[r.Pointer].Type = ElementNode) =>
                      FindNextElementSibling(res.val) = RootRes(r)

\* C7 witness: from an element, FindPrevElementSibling skipped a node that
\* is not an element and returned an element.
C7_Witness ==
    /\ Returned({"FindPrevElementSibling"})
    /\ doc[r.Pointer].Type = ElementNode
    /\ res.kind = "Root" /\ res.val.Error = NilErr
    /\ res.val.Pointer # doc[r.Pointer].PrevSibling

\* The contents of the nodes of S, concatenated in document order.
RECURSIVE ConcatData(_)
ConcatData(S) ==
    IF S = {} THEN <<>> ELSE doc[Min(S)].Data \o ConcatData(S \ {Min(S)})

\* C8: Text of a node that is not a text node is the content of its text
\* children, in sibling order; FullText is the content of all its text
\* descendants, in document order; of a text node both are its content.
C8_TextExtraction ==
    /\ Returned({"Text"}) =>
           /\ res.kind = "string"
           /\ res.val =
                  IF doc[r.Pointer].Type = TextNode
                  THEN doc[r.Pointer].Data
                  ELSE ConcatData({m \in Nodes : /\ doc[m].Parent = r.Pointer
                                                 /\ doc[m].Type = TextNode})
    /\ Returned({"FullText"}) =>
           /\ res.kind = "string"
           /\ res.val =
                  IF doc[r.Pointer].Type = TextNode
                  THEN doc[r.Pointer].Data
                  ELSE ConcatData({m \in Descendants(r.Pointer) :
                                      doc[m].Type = TextNode})

\* C8 witness: FullText returned a text whose second part lies inside a
\* child element, a part that Text of the same node leaves out.
C8_Witness ==
    /\ Returned({"FullText"})
    /\ doc[r.Pointer].Type = ElementNode
    /\ res.val = sAB
    /\ Text(r).val = sA

\* C10: FindAll and FindAllStrict with one or three arguments return each
\* node at most once, so the length of the result is the number of matching
\* nodes.
C10_NoDuplicates ==
    (Returned({"FindAll", "FindAllStrict"}) /\ Len(call.args) \in {1, 3}) =>
        /\ res.kind = "Roots"
        /\ \A i, j \in 1..Len(res.val) :
               i # j => res.val[i].Pointer # res.val[j].Pointer
        /\ Len(res.val) = Cardinality({res.val[i].Pointer : i \in 1..Len(res.val)})

====
